---- MODULE Spec2Model ----
(***************************************************************************)
(* Model of the portfolio back end's AI agent tasks (job-agent.ts, the     *)
(* chat agent, the portfolio agent) and of the notification senders        *)
(* (email.ts, sms.ts).                                                     *)
(*                                                                         *)
(* A text (a model response, a JSON document) is a sequence of tokens.     *)
(* A token is one punctuation character, one white-space character, or a   *)
(* maximal run of letters (a word such as "json" or "jobTitle"); no word   *)
(* of the alphabet other than "json" itself starts with the letters json.  *)
(***************************************************************************)
EXTENDS Integers, Sequences, FiniteSets, TLC

----------------------------------------------------------------------------
(* Text helpers                                                            *)

\* the backtick character (written as a name: the character itself cannot
\* appear in a TLA+ string)
BACKTICK == "BACKTICK"
QUOTE == "\""
SPACE == " "
NEWLINE == "\n"

WhiteSpace == {SPACE, NEWLINE}

IsFenceAt(t, i) ==
    /\ i + 2 <= Len(t)
    /\ t[i] = BACKTICK /\ t[i + 1] = BACKTICK /\ t[i + 2] = BACKTICK

\* text.replace(/<fence>json|<fence>/g, "") where <fence> is three backticks:
\* left to right, at each position the alternative with json is tried first
RECURSIVE StripFrom(_, _)
StripFrom(t, i) ==
    IF i > Len(t) THEN <<>>
    ELSE IF IsFenceAt(t, i)
         THEN IF i + 3 <= Len(t) /\ t[i + 3] = "json"
              THEN StripFrom(t, i + 4)
              ELSE StripFrom(t, i + 3)
         ELSE <<t[i]>> \o StripFrom(t, i + 1)

StripFences(t) == StripFrom(t, 1)

\* String.prototype.trim
RECURSIVE TrimLeft(_)
TrimLeft(t) ==
    IF t # <<>> /\ Head(t) \in WhiteSpace THEN TrimLeft(Tail(t)) ELSE t

RECURSIVE TrimRight(_)
TrimRight(t) ==
    IF t # <<>> /\ t[Len(t)] \in WhiteSpace
    THEN TrimRight(SubSeq(t, 1, Len(t) - 1)) ELSE t

Trim(t) == TrimRight(TrimLeft(t))

----------------------------------------------------------------------------
(* JSON.parse over token texts: strings (without escapes), arrays,         *)
(* objects and the literal null.  A parsed value is a record with a kind.  *)

SyntaxError == [kind |-> "SyntaxError"]
JsonNull == [kind |-> "null"]
JsonString(chars) == [kind |-> "string", chars |-> chars]
JsonArray(elems) == [kind |-> "array", elems |-> elems]
JsonObject(members) == [kind |-> "object", members |-> members]

Fail == [ok |-> FALSE, val |-> SyntaxError, next |-> 0]
Got(v, n) == [ok |-> TRUE, val |-> v, next |-> n]

RECURSIVE SkipWs(_, _)
SkipWs(t, i) ==
    IF i <= Len(t) /\ t[i] \in WhiteSpace THEN SkipWs(t, i + 1) ELSE i

\* position of the closing quote of the string whose content starts at i,
\* or 0 when the string is unterminated or holds a raw line break
RECURSIVE CloseQuote(_, _)
CloseQuote(t, i) ==
    IF i > Len(t) THEN 0
    ELSE IF t[i] = QUOTE THEN i
    ELSE IF t[i] = NEWLINE THEN 0
    ELSE CloseQuote(t, i + 1)

ParseString(t, i) ==
    IF i <= Len(t) /\ t[i] = QUOTE
    THEN LET j == CloseQuote(t, i + 1) IN
         IF j = 0 THEN Fail
         ELSE Got(JsonString(SubSeq(t, i + 1, j - 1)), j + 1)
    ELSE Fail

RECURSIVE ParseValue(_, _)
RECURSIVE ParseElements(_, _, _)
RECURSIVE ParseMembers(_, _, _)

\* after "[" and at least one element: "," value ... "]"
ParseElements(t, i, acc) ==
    LET r == ParseValue(t, i) IN
    IF ~r.ok THEN Fail
    ELSE LET k == SkipWs(t, r.next) IN
         IF k > Len(t) THEN Fail
         ELSE IF t[k] = "]" THEN Got(JsonArray(Append(acc, r.val)), k + 1)
         ELSE IF t[k] = "," THEN ParseElements(t, k + 1, Append(acc, r.val))
         ELSE Fail

\* after "{": "key" ":" value ("," ...)* "}"
ParseMembers(t, i, acc) ==
    LET ks == ParseString(t, SkipWs(t, i)) IN
    IF ~ks.ok THEN Fail
    ELSE LET c == SkipWs(t, ks.next) IN
         IF c > Len(t) \/ t[c] # ":" THEN Fail
         ELSE LET r == ParseValue(t, c + 1) IN
              IF ~r.ok THEN Fail
              ELSE LET k == SkipWs(t, r.next)
                       m == Append(acc, [val |-> r.val, key |-> ks.val.chars])
                   IN IF k > Len(t) THEN Fail
                      ELSE IF t[k] = "}" THEN Got(JsonObject(m), k + 1)
                      ELSE IF t[k] = "," THEN ParseMembers(t, k + 1, m)
                      ELSE Fail

ParseValue(t, i0) ==
    LET i == SkipWs(t, i0) IN
    IF i > Len(t) THEN Fail
    ELSE IF t[i] = QUOTE THEN ParseString(t, i)
    ELSE IF t[i] = "null" THEN Got(JsonNull, i + 1)
    ELSE IF t[i] = "["
         THEN LET k == SkipWs(t, i + 1) IN
              IF k <= Len(t) /\ t[k] = "]" THEN Got(JsonArray(<<>>), k + 1)
              ELSE ParseElements(t, i + 1, <<>>)
    ELSE IF t[i] = "{"
         THEN LET k == SkipWs(t, i + 1) IN
              IF k <= Len(t) /\ t[k] = "}" THEN Got(JsonObject(<<>>), k + 1)
              ELSE ParseMembers(t, i + 1, <<>>)
    ELSE Fail

\* JSON.parse(text): the parsed value, or SyntaxError (the call throws)
JSONParse(t) ==
    LET r == ParseValue(t, 1) IN
    IF r.ok /\ SkipWs(t, r.next) > Len(t) THEN r.val ELSE SyntaxError

\* mutant: a parse step that takes an unparseable answer for an empty array
ParseStepLenient(text) ==
    LET v == JSONParse(Trim(StripFences(text))) IN
    IF v.kind = "SyntaxError" THEN JsonArray(<<>>) ELSE v

\* JSON.parse(result.text.replace(/<fence>json|<fence>/g, "").trim())
ParseStep(text) == JSONParse(Trim(StripFences(text)))

----------------------------------------------------------------------------
(* Notification senders (src/lib/email.ts, src/lib/sms.ts)                 *)

\* process.env as a sender or a task reads it at call time: NODE_ENV, and
\* for every other variable whether it is set to a non-empty value
Envs ==
    [NODE_ENV : {"development", "production", "test"},
     USER_EMAIL : BOOLEAN, USER_PHONE : BOOLEAN,
     TWILIO_ACCOUNT_SID : BOOLEAN, TWILIO_AUTH_TOKEN : BOOLEAN,
     TWILIO_PHONE_NUMBER : BOOLEAN,
     EMAIL_SERVER_USER : BOOLEAN, EMAIL_SERVER_PASSWORD : BOOLEAN]

\* what the external provider does with one request
Transport == {"delivered", "unreachable"}

\* the outcome of one sender call: the boolean it returns (meaningless when
\* it raised), whether it raised, whether the provider was contacted
SendOutcome(ret, threw, contacted) ==
    [ret |-> ret, threw |-> threw, contacted |-> contacted]

\* mutant: a sendMail without its catch block
sendMailRaises(env, transport) ==
    IF transport = "delivered" THEN SendOutcome(TRUE, FALSE, TRUE)
    ELSE SendOutcome(FALSE, TRUE, TRUE)

sendMail(env, transport) ==
    IF transport = "delivered" THEN SendOutcome(TRUE, FALSE, TRUE)
    ELSE IF env.NODE_ENV = "development" THEN SendOutcome(TRUE, FALSE, TRUE)
    ELSE SendOutcome(FALSE, FALSE, TRUE)

\* mutant: a sendSMS without the credentials check
sendSMSUnchecked(env, transport) ==
    IF transport = "delivered" THEN SendOutcome(TRUE, FALSE, TRUE)
    ELSE IF env.NODE_ENV = "development" THEN SendOutcome(TRUE, FALSE, TRUE)
    ELSE SendOutcome(FALSE, FALSE, TRUE)

\* mutant: a sendSMS whose catch block reports the failure in every mode
sendSMSReportsFailure(env, transport) ==
    IF ~env.TWILIO_ACCOUNT_SID \/ ~env.TWILIO_AUTH_TOKEN
         \/ ~env.TWILIO_PHONE_NUMBER
    THEN SendOutcome(FALSE, FALSE, FALSE)
    ELSE IF transport = "delivered" THEN SendOutcome(TRUE, FALSE, TRUE)
    ELSE SendOutcome(FALSE, FALSE, TRUE)

sendSMS(env, transport) ==
    IF ~env.TWILIO_ACCOUNT_SID \/ ~env.TWILIO_AUTH_TOKEN
         \/ ~env.TWILIO_PHONE_NUMBER
    THEN SendOutcome(FALSE, FALSE, FALSE)
    ELSE IF transport = "delivered" THEN SendOutcome(TRUE, FALSE, TRUE)
    ELSE IF env.NODE_ENV = "development" THEN SendOutcome(TRUE, FALSE, TRUE)
    ELSE SendOutcome(FALSE, FALSE, TRUE)

----------------------------------------------------------------------------
(* Values and the data store                                               *)

Undefined == [kind |-> "undefined"]

\* an input object whose userId is missing
MISSING == "<missing>"

\* job.<name> of a parsed value: the last member of that name of an object,
\* undefined for anything else
Field(v, name) ==
    IF v.kind # "object" THEN Undefined
    ELSE LET hits == {i \in 1..Len(v.members) : v.members[i].key = <<name>>}
         IN IF hits = {} THEN Undefined
            ELSE v.members[CHOOSE i \in hits : \A j \in hits : j <= i].val

\* a string value of at least one character is truthy
Truthy(v) == v.kind \in {"array", "object"} \/ (v.kind = "string" /\ v.chars # <<>>)

IsText(v) == v.kind = "string"

\* prisma.<table>.findMany({ where: { userId } }): an undefined userId puts
\* no condition on the rows
FindManyByUser(table, userId) ==
    IF userId = MISSING THEN table
    ELSE SelectSeq(table, LAMBDA row : row.userId = userId)

\* the values a for-of loop visits, or no iteration at all (a TypeError)
Iterate(v) ==
    IF v.kind = "array" THEN [ok |-> TRUE, items |-> v.elems]
    ELSE IF v.kind = "string"
         THEN [ok |-> TRUE,
               items |-> [i \in 1..Len(v.chars) |-> JsonString(<<v.chars[i]>>)]]
    ELSE [ok |-> FALSE, items |-> <<>>]

----------------------------------------------------------------------------
(* Model responses                                                         *)

Str(w) == <<QUOTE, w, QUOTE>>
Member(k, w) == Str(k) \o <<":">> \o Str(w)
FENCE == <<BACKTICK, BACKTICK, BACKTICK>>
Fenced(t) == FENCE \o <<"json", NEWLINE>> \o t \o <<NEWLINE>> \o FENCE

JobText(title) == <<"{">> \o Member("jobTitle", title) \o <<"}">>
JobTextAt(title, loc) ==
    <<"{">> \o Member("jobTitle", title) \o <<",", SPACE>>
            \o Member("location", loc) \o <<"}">>

\* what the model may answer to the job search prompt: a fenced array of two
\* jobs, a bare array of one job, an empty array, prose, an object, and a
\* fenced array that was cut short
JobResponses ==
    { Fenced(<<"[">> \o JobTextAt("engineer", "Berlin") \o <<",", NEWLINE>>
                     \o JobText("analyst") \o <<"]">>),
      <<"[">> \o JobText("designer") \o <<"]">>,
      <<"[", "]">>,
      <<"Sorry", SPACE, "no", SPACE, "jobs">>,
      <<"{">> \o Member("error", "overloaded") \o <<"}">>,
      FENCE \o <<"json", NEWLINE, "[">> \o JobText("engineer") \o <<",">> }

ReminderText(title, due, priority) ==
    <<"{">> \o Member("title", title) \o <<",">> \o Member("dueDate", due)
            \o <<",">> \o Member("priority", priority)
            \o <<",">> \o Member("category", "OTHER") \o <<"}">>

\* what the model may answer to the reminder prompt
ReminderResponses ==
    { Fenced(<<"[">> \o ReminderText("skills", "day2", "URGENT") \o <<",">>
                     \o ReminderText("resume", "day3", "LOW") \o <<"]">>),
      <<"[">> \o ReminderText("projects", "day1", "HIGH") \o <<"]">>,
      <<"[", "]">>,
      <<"Sorry">>,
      <<"[">> \o ReminderText("bio", "soon", "MEDIUM") \o <<"]">> }

\* what the model may answer to the content analysis prompt
AnalysisResponses ==
    { Fenced(<<"{">> \o Member("contentGaps", "none") \o <<"}">>),
      <<"Sorry">> }

\* what the model may answer to the skill update prompt
SuggestionResponses ==
    { <<"[", "{">> \o Member("name", "rust") \o <<"}", "]">>,
      FENCE \o <<"json", NEWLINE, "[">> }

\* what the model may answer to a cover letter prompt and to a visitor
CoverLetters == {<<"Dear", SPACE, "team", NEWLINE>>}
ChatReplies == {<<SPACE, "hello", NEWLINE>>}

Responses ==
    JobResponses \cup ReminderResponses \cup AnalysisResponses
        \cup SuggestionResponses \cup {<<>>}

\* the parse step applied to every response
Parsed == [t \in Responses |-> ParseStep(t)]

----------------------------------------------------------------------------
(* State                                                                   *)

VARIABLES
    user,           \* prisma.user: the owner and the other accounts
    skill,          \* prisma.skill: one row per skill, with its owner
    experience,     \* prisma.experience: one row per record, with its owner
    jobAlerts,      \* prisma.jobAlert: the rows in creation order
    reminders,      \* prisma.portfolioReminder: the rows in creation order
    before,         \* the store as it was when the last invocation started
    last,           \* the last invocation: operation, input and outcome
    resumeDistributions,    \* prisma.resumeDistribution, in creation order
    chatInteractions,       \* prisma.chatInteraction, in creation order
    chatMessages,           \* prisma.chatMessage, in creation order
    call,           \* the last direct call of a sender and its outcome
    doc,            \* a JSON document the model is to answer with
    response,       \* the model's answer: the document inside fences
    value,          \* what the parse step made of the answer
    stage,          \* how far the answer has got: idle, fenced, parsed
    now,            \* the clock, in hours
    runs,           \* the runs of sendReminderNotifications
    overlap         \* whether two of these runs were ever active together

profileVars == <<user, skill, experience>>
agentVars == <<jobAlerts, before, last>>
deskVars == <<resumeDistributions, chatInteractions, chatMessages>>
senderVars == <<call>>
parseVars == <<doc, response, value, stage>>
dueVars == <<now, runs, overlap>>

vars ==
    <<profileVars, agentVars, deskVars, reminders, senderVars, parseVars,
      dueVars>>

\* the number of rows the agents' tables hold together in the model
MaxRows == 2

UserIds == {"u1", "u2", "u3", "u4", "u5"}

\* the one fault an invocation may meet: none, a failing store read, a
\* failing model call, or the failing write of the k-th derived item
MaxItems == 2
Faults ==
    {[k |-> 0, at |-> a] : a \in {"none", "fetch", "infer"}}
        \cup {[k |-> i, at |-> "persist"] : i \in 1..MaxItems}

\* the outcome of an invocation
Outcome(result, error, reads, llmCalls, parsed, writes, created, n, ret) ==
    [n |-> n, ret |-> ret, result |-> result, error |-> error,
     reads |-> reads, llmCalls |-> llmCalls, parsed |-> parsed,
     writes |-> writes, created |-> created]

NoNotify == [threw |-> FALSE, mails |-> <<>>, sms |-> <<>>]

\* the end-of-task notification: the email when USER_EMAIL is set, then the
\* SMS (for a task that sends one) when USER_PHONE is set
Notify(env, mailTransport, smsTransport, withSms) ==
    LET m == IF env.USER_EMAIL THEN <<sendMail(env, mailTransport)>> ELSE <<>>
        mailThrew == m # <<>> /\ m[1].threw
        s == IF withSms /\ ~mailThrew /\ env.USER_PHONE
             THEN <<sendSMS(env, smsTransport)>> ELSE <<>>
    IN [threw |-> mailThrew \/ (s # <<>> /\ s[1].threw), mails |-> m, sms |-> s]

SearchJobsNotify ==
    {Notify(e, mt, st, TRUE) : e \in Envs, mt \in Transport, st \in Transport}

GenerateRemindersNotify ==
    {Notify(e, mt, mt, FALSE) : e \in Envs, mt \in Transport}

----------------------------------------------------------------------------
(* searchJobs (src/server/ai/agents/job-agent.ts)                          *)

\* mutant: the guard written with && for ||
HasSkillsOrExperience(userSkills, userExperience) ==
    ~(Len(userSkills) = 0 /\ Len(userExperience) = 0)

\* the guard of line 132, negated: both sets are non-empty
HasSkillsAndExperience(userSkills, userExperience) ==
    ~(Len(userSkills) = 0 \/ Len(userExperience) = 0)

\* the data of prisma.jobAlert.create; status takes the schema's default
JobAlertData(userId, job) ==
    [userId |-> userId,
     jobTitle |-> Field(job, "jobTitle").chars,
     location |-> IF Truthy(Field(job, "location"))
                  THEN Field(job, "location").chars ELSE <<"Remote">>,
     status |-> "IDENTIFIED"]

\* the store accepts a job alert that has an owner and its required columns,
\* of which the model keeps the title
AcceptsJobAlert(userId, job) ==
    userId # MISSING /\ IsText(Field(job, "jobTitle"))

\* mutant: a loop that stops before the last item
RECURSIVE PersistJobsButLast(_, _, _, _)
PersistJobsButLast(userId, items, i, failAt) ==
    IF i >= Len(items) THEN [writes |-> 0, created |-> <<>>, failed |-> FALSE]
    ELSE IF i = failAt \/ ~AcceptsJobAlert(userId, items[i])
         THEN [writes |-> 1, created |-> <<>>, failed |-> TRUE]
    ELSE LET rest == PersistJobsButLast(userId, items, i + 1, failAt) IN
         [writes |-> 1 + rest.writes,
          created |-> <<JobAlertData(userId, items[i])>> \o rest.created,
          failed |-> rest.failed]

\* mutant: a loop inside a transaction, which a failing write rolls back
RECURSIVE PersistJobsRollsBack(_, _, _, _)
PersistJobsRollsBack(userId, items, i, failAt) ==
    IF i > Len(items) THEN [writes |-> 0, created |-> <<>>, failed |-> FALSE]
    ELSE IF i = failAt \/ ~AcceptsJobAlert(userId, items[i])
         THEN [writes |-> 1, created |-> <<>>, failed |-> TRUE]
    ELSE LET rest == PersistJobsRollsBack(userId, items, i + 1, failAt) IN
         [writes |-> 1 + rest.writes,
          created |-> IF rest.failed THEN <<>>
                      ELSE <<JobAlertData(userId, items[i])>> \o rest.created,
          failed |-> rest.failed]

\* mutant: a loop that catches the failure of a write and goes on
RECURSIVE PersistJobsKeepsGoing(_, _, _, _)
PersistJobsKeepsGoing(userId, items, i, failAt) ==
    IF i > Len(items) THEN [writes |-> 0, created |-> <<>>, failed |-> FALSE]
    ELSE LET rest == PersistJobsKeepsGoing(userId, items, i + 1, failAt) IN
         IF i = failAt \/ ~AcceptsJobAlert(userId, items[i])
         THEN [writes |-> 1 + rest.writes, created |-> rest.created,
               failed |-> TRUE]
         ELSE [writes |-> 1 + rest.writes,
               created |-> <<JobAlertData(userId, items[i])>> \o rest.created,
               failed |-> rest.failed]

\* the loop of lines 181-195 from item i on: the rows created, the number of
\* writes attempted, and whether an iteration raised
RECURSIVE PersistJobs(_, _, _, _)
PersistJobs(userId, items, i, failAt) ==
    IF i > Len(items) THEN [writes |-> 0, created |-> <<>>, failed |-> FALSE]
    ELSE IF items[i].kind = "null"
         THEN [writes |-> 0, created |-> <<>>, failed |-> TRUE]
    ELSE IF i = failAt \/ ~AcceptsJobAlert(userId, items[i])
         THEN [writes |-> 1, created |-> <<>>, failed |-> TRUE]
    ELSE LET rest == PersistJobs(userId, items, i + 1, failAt) IN
         [writes |-> 1 + rest.writes,
          created |-> <<JobAlertData(userId, items[i])>> \o rest.created,
          failed |-> rest.failed]

searchJobs(userId, fault, text, n) ==
    LET userSkills == FindManyByUser(skill, userId)
        userExperience == FindManyByUser(experience, userId)
        jobResults == Parsed[text]
        loop == Iterate(jobResults)
        p == PersistJobs(userId, loop.items, 1,
                         IF fault.at = "persist" THEN fault.k ELSE 0)
    IN IF fault.at = "fetch"
       THEN Outcome("error", "FetchError", 1, 0, Undefined, 0, <<>>, NoNotify, Undefined)
       ELSE IF ~HasSkillsAndExperience(userSkills, userExperience)
       THEN Outcome("error", "InsufficientDataError", 2, 0, Undefined, 0, <<>>,
                    NoNotify, Undefined)
       ELSE IF fault.at = "infer"
       THEN Outcome("error", "InferenceError", 2, 1, Undefined, 0, <<>>, NoNotify, Undefined)
       ELSE IF jobResults.kind = "SyntaxError"
       THEN Outcome("error", "MalformedResponseError", 2, 1, jobResults, 0, <<>>,
                    NoNotify, Undefined)
       ELSE IF ~loop.ok
       THEN Outcome("error", "TypeError", 2, 1, jobResults, 0, <<>>, NoNotify, Undefined)
       ELSE IF p.failed
       THEN Outcome("error", "PersistenceError", 2, 1, jobResults, p.writes,
                    p.created, NoNotify, Undefined)
       ELSE IF n.threw
       THEN Outcome("error", "NotificationError", 2, 1, jobResults, p.writes,
                    p.created, n, Undefined)
       ELSE Outcome("ok", "none", 2, 1, jobResults, p.writes, p.created, n, jobResults)

\* The inputs of an invocation besides its parameter object, drawn as the
\* invocation asks for them: the fault it meets, the model's answer (when
\* the model is called and answers), the outcome of its notifications (when
\* it reaches them).
NoFault == [k |-> 0, at |-> "none"]
NoText == <<>>
Scenario(fault, text, n) == [n |-> n, text |-> text, fault |-> fault]

FaultsAt(places) == {f \in Faults : f.at \in places}
PersistFaults(text) ==
    {f \in Faults : f.at = "persist" /\ f.k <= Len(Iterate(Parsed[text]).items)}

\* the scenarios of a task whose model call is reached: the call fails, or it
\* answers and a write fails, or it answers and no fault occurs
ModelScenarios(texts, notifications) ==
    {Scenario(f, NoText, NoNotify) : f \in FaultsAt({"infer"})}
        \cup UNION {{Scenario(f, t, NoNotify) : f \in PersistFaults(t)} : t \in texts}
        \cup {Scenario(NoFault, t, n) : t \in texts, n \in notifications}

\* the rows that count against MaxRows
StoredRows == Len(jobAlerts) + Len(reminders) + Len(resumeDistributions)

\* the tables the tasks write, as they are now
Snapshot ==
    [jobAlerts |-> jobAlerts, reminders |-> reminders,
     resumeDistributions |-> resumeDistributions,
     chatInteractions |-> chatInteractions, chatMessages |-> chatMessages]

SearchJobsDone(userId, fault, text, out) ==
    /\ StoredRows + Len(out.created) <= MaxRows
    /\ jobAlerts' = jobAlerts \o out.created
    /\ before' = Snapshot
    /\ last' = [text |-> text, userId |-> userId, fault |-> fault, out |-> out,
                op |-> "searchJobs"]
    /\ UNCHANGED <<profileVars, deskVars, reminders, senderVars, parseVars,
                   dueVars>>

SearchJobsScenarios(userId) ==
    {Scenario(f, NoText, NoNotify) : f \in FaultsAt({"fetch"})}
        \cup IF searchJobs(userId, NoFault, NoText, NoNotify).llmCalls = 0
             THEN {Scenario(NoFault, NoText, NoNotify)}
             ELSE ModelScenarios(JobResponses, SearchJobsNotify)

SearchJobs ==
    \E userId \in UserIds \cup {MISSING} :
        \E sc \in SearchJobsScenarios(userId) :
            SearchJobsDone(userId, sc.fault, sc.text,
                           searchJobs(userId, sc.fault, sc.text, sc.n))

----------------------------------------------------------------------------
(* generateReminders (the portfolio agent)                                 *)

Priority == {"LOW", "MEDIUM", "HIGH", "URGENT"}
ReminderCategory ==
    {"SKILL_UPDATE", "PROJECT_ADD", "RESUME_UPDATE", "EXPERIENCE_UPDATE",
     "CONTENT_REFRESH", "OTHER"}

\* new Date(text) for the date texts of the model, in hours; any other text
\* gives an invalid date
DateTexts == [day1 |-> 24, day2 |-> 48, day3 |-> 72]
IsDateText(v) == IsText(v) /\ Len(v.chars) = 1 /\ v.chars[1] \in DOMAIN DateTexts
IsWordOf(v, words) == IsText(v) /\ Len(v.chars) = 1 /\ v.chars[1] \in words

\* the data of prisma.portfolioReminder.create
ReminderData(reminder) ==
    [title |-> Field(reminder, "title").chars,
     priority |-> Field(reminder, "priority").chars[1],
     dueDate |-> DateTexts[Field(reminder, "dueDate").chars[1]],
     category |-> Field(reminder, "category").chars[1],
     completed |-> FALSE,
     notificationSent |-> FALSE]

\* the store accepts a reminder with a title, a valid date and enum values
AcceptsReminder(reminder) ==
    /\ IsText(Field(reminder, "title"))
    /\ IsDateText(Field(reminder, "dueDate"))
    /\ IsWordOf(Field(reminder, "priority"), Priority)
    /\ IsWordOf(Field(reminder, "category"), ReminderCategory)

\* the loop that creates the reminders, from item i on
RECURSIVE PersistReminders(_, _, _)
PersistReminders(items, i, failAt) ==
    IF i > Len(items) THEN [writes |-> 0, created |-> <<>>, failed |-> FALSE]
    ELSE IF items[i].kind = "null"
         THEN [writes |-> 0, created |-> <<>>, failed |-> TRUE]
    ELSE IF i = failAt \/ ~AcceptsReminder(items[i])
         THEN [writes |-> 1, created |-> <<>>, failed |-> TRUE]
    ELSE LET rest == PersistReminders(items, i + 1, failAt) IN
         [writes |-> 1 + rest.writes,
          created |-> <<ReminderData(items[i])>> \o rest.created,
          failed |-> rest.failed]

ListOf(rows) == [kind |-> "list", elems |-> rows]

generateReminders(userId, fault, text, n) ==
    LET reminderSuggestions == Parsed[text]
        loop == Iterate(reminderSuggestions)
        p == PersistReminders(loop.items, 1,
                              IF fault.at = "persist" THEN fault.k ELSE 0)
    IN IF fault.at = "fetch"
       THEN Outcome("error", "FetchError", 1, 0, Undefined, 0, <<>>, NoNotify, Undefined)
       ELSE IF fault.at = "infer"
       THEN Outcome("error", "InferenceError", 3, 1, Undefined, 0, <<>>, NoNotify, Undefined)
       ELSE IF reminderSuggestions.kind = "SyntaxError"
       THEN Outcome("error", "MalformedResponseError", 3, 1, reminderSuggestions, 0,
                    <<>>, NoNotify, Undefined)
       ELSE IF ~loop.ok
       THEN Outcome("error", "TypeError", 3, 1, reminderSuggestions, 0, <<>>,
                    NoNotify, Undefined)
       ELSE IF p.failed
       THEN Outcome("error", "PersistenceError", 3, 1, reminderSuggestions,
                    p.writes, p.created, NoNotify, Undefined)
       ELSE IF n.threw
       THEN Outcome("error", "NotificationError", 3, 1, reminderSuggestions,
                    p.writes, p.created, n, Undefined)
       ELSE Outcome("ok", "none", 3, 1, reminderSuggestions, p.writes, p.created,
                    n, ListOf(p.created))

GenerateRemindersDone(userId, fault, text, out) ==
    /\ StoredRows + Len(out.created) <= MaxRows
    /\ reminders' = reminders \o out.created
    /\ before' = Snapshot
    /\ last' = [text |-> text, userId |-> userId, fault |-> fault, out |-> out,
                op |-> "generateReminders"]
    /\ UNCHANGED <<profileVars, deskVars, jobAlerts, senderVars, parseVars,
                   dueVars>>

GenerateRemindersScenarios ==
    {Scenario(f, NoText, NoNotify) : f \in FaultsAt({"fetch"})}
        \cup ModelScenarios(ReminderResponses, GenerateRemindersNotify)

GenerateReminders ==
    \E userId \in {"u1", MISSING} :
        \E sc \in GenerateRemindersScenarios :
            GenerateRemindersDone(userId, sc.fault, sc.text,
                                  generateReminders(userId, sc.fault, sc.text, sc.n))

----------------------------------------------------------------------------
(* The agent tasks                                                         *)

Rows(owners) == [i \in 1..Len(owners) |-> [userId |-> owners[i]]]

\* u1 has three skills and two experience records, u2 one of each, u3 only a
\* skill, u4 only an experience record, u5 neither
ProfileInit ==
    /\ user = [i \in 1..5 |->
                  [id |-> <<"u1", "u2", "u3", "u4", "u5">>[i],
                   role |-> IF i = 1 THEN "ADMIN" ELSE "USER"]]
    /\ skill = Rows(<<"u1", "u1", "u1", "u2", "u3">>)
    /\ experience = Rows(<<"u1", "u1", "u2", "u4">>)

AgentsIdle ==
    /\ jobAlerts = <<>>
    /\ resumeDistributions = <<>>
    /\ chatInteractions = <<>>
    /\ chatMessages = <<>>
    /\ before = [jobAlerts |-> <<>>, reminders |-> <<>>,
                 resumeDistributions |-> <<>>, chatInteractions |-> <<>>,
                 chatMessages |-> <<>>]
    /\ last = [op |-> "none"]

SendersIdle == call = [fn |-> "none"]

ParseIdle ==
    /\ doc = <<>> /\ response = <<>> /\ value = Undefined /\ stage = "idle"

Runs == {"run1", "run2"}

\* a run of sendReminderNotifications: where it stands, the reminders it
\* selected (by position in the table), the one it is at, its locals
\* userEmail, userPhone and notificationsSent, the reminders it has called
\* sendMail and sendSMS for, the await that failed it and what it returned
IdleRun ==
    [i |-> 0, ret |-> 0, due |-> <<>>, pc |-> "idle", userEmail |-> FALSE,
     userPhone |-> FALSE, notificationsSent |-> 0, mailed |-> {},
     texted |-> {}, failedAt |-> "none"]

DueIdle ==
    /\ now = 0 /\ runs = [p \in Runs |-> IdleRun] /\ overlap = FALSE

Init ==
    /\ ProfileInit /\ AgentsIdle /\ reminders = <<>>
    /\ SendersIdle /\ ParseIdle /\ DueIdle

----------------------------------------------------------------------------
(* Properties of searchJobs and generateReminders                          *)

IsSearch == last.op = "searchJobs"
IsGenerate == last.op = "generateReminders"
IsAgentRun == IsSearch \/ IsGenerate

\* the last invocation left the store as it found it
StoreUntouched == Snapshot = before

\* the store is what it was plus the rows the last invocation created
StoreGrewBy(rows) ==
    /\ jobAlerts = before.jobAlerts \o (IF IsSearch THEN rows ELSE <<>>)
    /\ reminders = before.reminders \o (IF IsGenerate THEN rows ELSE <<>>)
    /\ resumeDistributions = before.resumeDistributions
    /\ chatInteractions = before.chatInteractions
    /\ chatMessages = before.chatMessages

NothingSent == last.out.n.mails = <<>> /\ last.out.n.sms = <<>>

\* the last invocation got the answers of the store to its reads
FetchAnswered == last.fault.at # "fetch"

\* the last invocation called the model and got the text last.text back
ModelAnswered == last.out.llmCalls = 1 /\ last.fault.at # "infer"

\* what each answer of the model is once stripped, trimmed and parsed
JsonOf ==
    [t \in Responses \cup CoverLetters \cup ChatReplies |->
        JSONParse(Trim(StripFences(t)))]

\* the model's answer of the last invocation, stripped, trimmed and parsed
Answer == JsonOf[last.text]

\* C1: a searchJobs invocation for a user whose fetched skill set or
\* experience set is empty fails with the insufficient-data error, without a
\* model call, a new job alert or a notification.
C1_InsufficientData ==
    (/\ IsSearch /\ last.userId \in UserIds /\ FetchAnswered
     /\ \/ FindManyByUser(skill, last.userId) = <<>>
        \/ FindManyByUser(experience, last.userId) = <<>>)
    => /\ last.out.result = "error"
       /\ last.out.error = "InsufficientDataError"
       /\ last.out.llmCalls = 0
       /\ last.out.writes = 0
       /\ StoreUntouched
       /\ NothingSent

\* u3 has a skill and no experience; the store already holds a job alert
C1_Witness ==
    /\ IsSearch /\ last.userId = "u3" /\ FetchAnswered
    /\ last.out.error = "InsufficientDataError"
    /\ jobAlerts # <<>>

\* C2: when the model's answer does not parse as JSON after the fences are
\* stripped, searchJobs and generateReminders fail with the malformed-response
\* error, attempt no write, leave job alerts and reminders as they were and
\* send no notification.
C2_MalformedResponse ==
    (IsAgentRun /\ ModelAnswered /\ Answer = SyntaxError)
    => /\ last.out.result = "error"
       /\ last.out.error = "MalformedResponseError"
       /\ last.out.ret = Undefined
       /\ last.out.writes = 0
       /\ StoreUntouched
       /\ NothingSent

\* a fenced answer that was cut short, with rows already in both tables
C2_Witness ==
    /\ IsAgentRun /\ ModelAnswered /\ Answer = SyntaxError
    /\ IsFenceAt(last.text, 1)
    /\ last.out.error = "MalformedResponseError"
    /\ jobAlerts # <<>> /\ reminders # <<>>

\* the answer is an array of job objects
IsJobArray(v) ==
    /\ v.kind = "array"
    /\ \A i \in 1..Len(v.elems) : IsText(Field(v.elems[i], "jobTitle"))

\* C3: for a user with skills and experience, an answer that is an array of
\* N job objects and no failing store write, searchJobs appends exactly N job
\* alerts, the i-th with the owner of the input, the title of the i-th array
\* element and status IDENTIFIED, and returns the parsed array.
C3_CreatesOnePerItem ==
    (/\ IsSearch /\ last.userId \in UserIds /\ FetchAnswered
     /\ FindManyByUser(skill, last.userId) # <<>>
     /\ FindManyByUser(experience, last.userId) # <<>>
     /\ ModelAnswered /\ IsJobArray(Answer)
     /\ last.fault.at # "persist")
    => /\ last.out.result = "ok"
       /\ last.out.ret = Answer
       /\ Len(jobAlerts) = Len(before.jobAlerts) + Len(Answer.elems)
       /\ SubSeq(jobAlerts, 1, Len(before.jobAlerts)) = before.jobAlerts
       /\ \A i \in 1..Len(Answer.elems) :
            LET row == jobAlerts[Len(before.jobAlerts) + i] IN
            /\ row.userId = last.userId
            /\ row.status = "IDENTIFIED"
            /\ row.jobTitle = Field(Answer.elems[i], "jobTitle").chars
       /\ reminders = before.reminders

\* two jobs found for u2
C3_Witness ==
    /\ IsSearch /\ last.userId = "u2" /\ last.out.result = "ok"
    /\ Len(Answer.elems) = 2
    /\ Len(jobAlerts) = Len(before.jobAlerts) + 2

\* the last invocation persisted every derived item: it met no fault and the
\* store accepted each item of the parsed array
AllPersisted ==
    /\ IsAgentRun /\ last.fault.at = "none" /\ last.out.llmCalls = 1
    /\ Answer.kind = "array"
    /\ last.out.writes = Len(Answer.elems)
    /\ Len(last.out.created) = Len(Answer.elems)

\* C8: once searchJobs or generateReminders has persisted every derived item
\* it returns its normal result whatever its sendMail and sendSMS calls
\* report, and the rows it created stay in the store.
C8_NotificationIsolated ==
    AllPersisted
    => /\ last.out.result = "ok"
       /\ last.out.ret = (IF IsSearch THEN Answer ELSE ListOf(last.out.created))
       /\ StoreGrewBy(last.out.created)

\* both senders were called and both reported failure
C8_Witness ==
    /\ IsSearch /\ AllPersisted /\ last.out.created # <<>>
    /\ last.out.result = "ok"
    /\ Len(last.out.n.mails) = 1 /\ ~last.out.n.mails[1].ret
    /\ Len(last.out.n.sms) = 1 /\ ~last.out.n.sms[1].ret

\* the write of item last.fault.k of the parsed array failed
WriteFailed ==
    /\ IsAgentRun /\ last.fault.at = "persist" /\ ModelAnswered
    /\ Answer.kind = "array" /\ last.fault.k <= Len(Answer.elems)
    /\ \A i \in 1..(last.fault.k - 1) :
         IF IsSearch THEN AcceptsJobAlert(last.userId, Answer.elems[i])
         ELSE AcceptsReminder(Answer.elems[i])

\* C10: when the write of the k-th derived item fails in searchJobs or
\* generateReminders, k writes were attempted and none after it, no
\* notification is sent and the task ends in failure without a result.
C10_FailedWriteAborts ==
    WriteFailed
    => /\ last.out.writes = last.fault.k
       /\ Len(last.out.created) = last.fault.k - 1
       /\ NothingSent
       /\ last.out.result = "error"
       /\ last.out.error = "PersistenceError"
       /\ last.out.ret = Undefined

\* the first of two writes failed
C10_Witness ==
    /\ WriteFailed /\ last.fault.k = 1 /\ Len(Answer.elems) = 2
    /\ last.out.error = "PersistenceError"

----------------------------------------------------------------------------
(* The senders called on their own                                         *)

\* one call of a sender, in any environment, with the provider in any mood
Called(fn, env, transport, outcome) ==
    /\ call' = [env |-> env, transport |-> transport, fn |-> fn,
                outcome |-> outcome]
    /\ UNCHANGED <<profileVars, agentVars, deskVars, reminders, parseVars,
                   dueVars>>

SendMailCall ==
    \E env \in Envs : \E transport \in Transport :
        Called("sendMail", env, transport, sendMail(env, transport))

SendSMSCall ==
    \E env \in Envs : \E transport \in Transport :
        Called("sendSMS", env, transport, sendSMS(env, transport))

NextSenders ==
    \/ SendMailCall
    \/ SendSMSCall

SpecSenders == Init /\ [][NextSenders]_vars

\* the last call reached the provider and the provider failed it
TransportFailed ==
    /\ call.fn \in {"sendMail", "sendSMS"}
    /\ call.outcome.contacted
    /\ call.transport = "unreachable"

\* C6: a sender whose transport fails raises nothing; it returns true in
\* development mode and false in every other mode
C6_DevModeMasksFailure ==
    TransportFailed =>
        /\ ~call.outcome.threw
        /\ call.outcome.ret = (call.env.NODE_ENV = "development")

\* sendSMS, with its credentials present, has met a failing provider in
\* development mode and has returned true
C6_Witness ==
    /\ TransportFailed
    /\ call.fn = "sendSMS"
    /\ call.env.NODE_ENV = "development"
    /\ call.outcome.ret

----------------------------------------------------------------------------
(* The parse step on fenced documents                                      *)

\* the longest document, in tokens
MaxDoc == 5

DocAlphabet == {"[", "]", ",", QUOTE, BACKTICK, "json", "a"}

TextsUpTo(n) == UNION {[1..k -> DocAlphabet] : k \in 0..n}

\* the well-formed JSON documents of at most MaxDoc tokens
JsonDocs == {t \in TextsUpTo(MaxDoc) : JSONParse(t).kind # "SyntaxError"}

InitParse ==
    /\ ProfileInit /\ AgentsIdle /\ reminders = <<>>
    /\ SendersIdle /\ DueIdle
    /\ doc \in JsonDocs
    /\ response = <<>> /\ value = Undefined /\ stage = "idle"

\* the model answers with the document between an opening fence, with or
\* without the json tag, and a closing fence, on lines of their own or not
ModelAnswers ==
    /\ stage = "idle"
    /\ \E tag \in {<<"json">>, <<>>} : \E nl \in {<<NEWLINE>>, <<>>} :
           response' = FENCE \o tag \o nl \o doc \o nl \o FENCE
    /\ stage' = "fenced"
    /\ UNCHANGED <<profileVars, agentVars, deskVars, reminders, senderVars, dueVars,
                   doc, value>>

\* the task applies its parse step to the answer
ParseAnswer ==
    /\ stage = "fenced"
    /\ value' = ParseStep(response)
    /\ stage' = "parsed"
    /\ UNCHANGED <<profileVars, agentVars, deskVars, reminders, senderVars, dueVars,
                   doc, response>>

NextParse ==
    \/ ModelAnswers
    \/ ParseAnswer

SpecParse == InitParse /\ [][NextParse]_vars

\* C7: the parse step makes of a fenced document the value that JSON.parse
\* makes of the document itself, string values that hold backticks included
C7_FencedParsesAsBare ==
    stage = "parsed" => value = JSONParse(doc)

----------------------------------------------------------------------------
(* sendReminderNotifications (the portfolio agent)                         *)

\* the lookahead of the due-check, in hours
LookaheadHours == 48

\* the most reminders in the table, and the most days the clock advances
MaxDue == 2
MaxTicks == 1

ReminderRow(title, priority, dueDate, completed, notificationSent) ==
    [title |-> <<title>>, priority |-> priority, dueDate |-> dueDate,
     category |-> "OTHER", completed |-> completed,
     notificationSent |-> notificationSent]

\* the reminders a table may hold when the due-check starts: every priority,
\* due dates inside, at the edge of and beyond the window, one completed and
\* one already notified
DuePool ==
    { ReminderRow("skills", "URGENT", 48, FALSE, FALSE),
      ReminderRow("resume", "LOW", 24, FALSE, FALSE),
      ReminderRow("projects", "HIGH", 72, FALSE, FALSE),
      ReminderRow("bio", "MEDIUM", 24, TRUE, FALSE),
      ReminderRow("site", "HIGH", 24, FALSE, TRUE),
      ReminderRow("blog", "MEDIUM", 48, FALSE, FALSE) }

DueTables ==
    {t \in UNION {[1..k -> DuePool] : k \in 1..MaxDue} :
        \A a, b \in DOMAIN t : a # b => t[a] # t[b]}

InitDue ==
    /\ ProfileInit /\ AgentsIdle /\ SendersIdle /\ ParseIdle /\ DueIdle
    /\ reminders \in DueTables

\* mutant: a where clause without the notificationSent filter
IsDueIgnoresNotified(r, clock) ==
    /\ r.dueDate <= clock + LookaheadHours
    /\ ~r.completed

\* mutant: a where clause without the completed filter
IsDueIgnoresCompleted(r, clock) ==
    /\ r.dueDate <= clock + LookaheadHours
    /\ ~r.notificationSent

\* the where clause of the findMany: due no later than the end of the
\* window, not completed, not yet notified
IsDue(r, clock) ==
    /\ r.dueDate <= clock + LookaheadHours
    /\ ~r.completed
    /\ ~r.notificationSent

RECURSIVE SelectFrom(_, _, _)
SelectFrom(table, clock, id) ==
    IF id > Len(table) THEN <<>>
    ELSE (IF IsDue(table[id], clock) THEN <<id>> ELSE <<>>)
             \o SelectFrom(table, clock, id + 1)

SelectDue(table, clock) == SelectFrom(table, clock, 1)

\* mutant: an escalation rule that texts only urgent reminders
EscalatesUrgentOnly(priority) == priority = "URGENT"

\* reminder.priority === 'HIGH' || reminder.priority === 'URGENT'
Escalates(priority) == priority \in {"HIGH", "URGENT"}

MailOutcomes == {sendMail(e, t) : e \in Envs, t \in Transport}
SmsOutcomes == {sendSMS(e, t) : e \in Envs, t \in Transport}

Active(p) == runs[p].pc \in {"email", "sms", "update"}

\* the catch block: the run returns 0
Failed(run, place) ==
    [run EXCEPT !.pc = "returned", !.failedAt = place, !.ret = 0]

DueUnchanged ==
    UNCHANGED <<profileVars, agentVars, deskVars, senderVars, parseVars>>

\* the findMany and, when it finds reminders, the reading of the owner's
\* address and phone from the environment
FindDue(p) ==
    /\ runs[p].pc = "idle"
    /\ overlap' = (overlap \/ \E q \in Runs \ {p} : Active(q))
    /\ \/ runs' = [runs EXCEPT ![p] = Failed(@, "find")]
       \/ /\ SelectDue(reminders, now) = <<>>
          /\ runs' = [runs EXCEPT ![p].pc = "returned"]
       \/ /\ SelectDue(reminders, now) # <<>>
          /\ \E email \in BOOLEAN : \E phone \in BOOLEAN :
                 runs' = [runs EXCEPT ![p].pc = "email",
                                      ![p].due = SelectDue(reminders, now),
                                      ![p].i = 1,
                                      ![p].userEmail = email,
                                      ![p].userPhone = phone]
    /\ UNCHANGED <<reminders, now>>
    /\ DueUnchanged

\* the email for the reminder the run is at, when the owner has an address
SendEmail(p) ==
    LET run == runs[p]
        id == run.due[run.i]
    IN /\ run.pc = "email"
       /\ IF run.userEmail
          THEN \E o \in MailOutcomes :
                   LET sent == [run EXCEPT !.mailed = @ \cup {id}] IN
                   runs' = [runs EXCEPT ![p] =
                               IF o.threw THEN Failed(sent, "email")
                               ELSE [sent EXCEPT !.pc = "sms"]]
          ELSE runs' = [runs EXCEPT ![p].pc = "sms"]
       /\ UNCHANGED <<reminders, now, overlap>>
       /\ DueUnchanged

\* the SMS for it, when the owner has a phone and the priority escalates
SendSms(p) ==
    LET run == runs[p]
        id == run.due[run.i]
    IN /\ run.pc = "sms"
       /\ IF run.userPhone /\ Escalates(reminders[id].priority)
          THEN \E o \in SmsOutcomes :
                   LET sent == [run EXCEPT !.texted = @ \cup {id}] IN
                   runs' = [runs EXCEPT ![p] =
                               IF o.threw THEN Failed(sent, "sms")
                               ELSE [sent EXCEPT !.pc = "update"]]
          ELSE runs' = [runs EXCEPT ![p].pc = "update"]
       /\ UNCHANGED <<reminders, now, overlap>>
       /\ DueUnchanged

\* mutant: a due-check whose catch block returns the count reached so far
MarkNotifiedKeepsCount(p) ==
    LET run == runs[p]
        id == run.due[run.i]
        counted == [run EXCEPT !.notificationsSent = @ + 1, !.i = @ + 1]
    IN /\ run.pc = "update"
       /\ \/ /\ runs' = [runs EXCEPT ![p] =
                            [run EXCEPT !.pc = "returned",
                                        !.failedAt = "update",
                                        !.ret = run.notificationsSent]]
             /\ UNCHANGED reminders
          \/ /\ reminders' = [reminders EXCEPT ![id].notificationSent = TRUE]
             /\ runs' = [runs EXCEPT ![p] =
                            IF run.i < Len(run.due)
                            THEN [counted EXCEPT !.pc = "email"]
                            ELSE [counted EXCEPT
                                     !.pc = "returned",
                                     !.ret = counted.notificationsSent]]
       /\ UNCHANGED <<now, overlap>>
       /\ DueUnchanged

\* the update that marks it notified, the count, and the next reminder or
\* the return of the count; a failing update ends the run
MarkNotified(p) ==
    LET run == runs[p]
        id == run.due[run.i]
        counted == [run EXCEPT !.notificationsSent = @ + 1, !.i = @ + 1]
    IN /\ run.pc = "update"
       /\ \/ /\ runs' = [runs EXCEPT ![p] = Failed(run, "update")]
             /\ UNCHANGED reminders
          \/ /\ reminders' = [reminders EXCEPT ![id].notificationSent = TRUE]
             /\ runs' = [runs EXCEPT ![p] =
                            IF run.i < Len(run.due)
                            THEN [counted EXCEPT !.pc = "email"]
                            ELSE [counted EXCEPT
                                     !.pc = "returned",
                                     !.ret = counted.notificationsSent]]
       /\ UNCHANGED <<now, overlap>>
       /\ DueUnchanged

\* a day passes
Tick ==
    /\ now < 24 * MaxTicks
    /\ now' = now + 24
    /\ UNCHANGED <<reminders, runs, overlap>>
    /\ DueUnchanged

NextDue ==
    \/ \E p \in Runs : FindDue(p)
    \/ \E p \in Runs : SendEmail(p)
    \/ \E p \in Runs : SendSms(p)
    \/ \E p \in Runs : MarkNotified(p)
    \/ Tick

SpecDue == InitDue /\ [][NextDue]_vars

----------------------------------------------------------------------------
(* Properties of sendReminderNotifications                                 *)

ReminderIds == DOMAIN reminders

MailsFor(id) == Cardinality({p \in Runs : id \in runs[p].mailed})
TextsFor(id) == Cardinality({p \in Runs : id \in runs[p].texted})

\* C4: when no two runs were ever active together, so that the second run
\* started after the first had returned, no reminder has had more than one
\* email and more than one SMS dispatched over the two runs, whatever the
\* sends and the updates of the first run did
C4_AtMostOncePerReminder ==
    ~overlap => \A id \in ReminderIds : MailsFor(id) <= 1 /\ TextsFor(id) <= 1

\* the reminders of its selection that run p has finished the sends for
Reached(p) ==
    LET run == runs[p] IN
    IF run.pc = "update" \/ (run.pc = "returned" /\ run.failedAt = "update")
    THEN {run.due[k] : k \in 1..run.i}
    ELSE {run.due[k] : k \in 1..(run.i - 1)}

Selected(p) == {runs[p].due[k] : k \in 1..Len(runs[p].due)}

\* C5 as stated: a run that has returned has dispatched, for every reminder
\* it selected, an email and an SMS if the priority is HIGH or URGENT and
\* the owner phone is configured, and an email and no SMS if the priority
\* is LOW or MEDIUM
C5_EscalationForEverySelected ==
    \A p \in Runs : runs[p].pc = "returned" =>
        \A id \in Selected(p) :
            /\ (reminders[id].priority \in {"HIGH", "URGENT"}
                    /\ runs[p].userPhone)
                   => id \in runs[p].mailed /\ id \in runs[p].texted
            /\ reminders[id].priority \in {"LOW", "MEDIUM"}
                   => id \in runs[p].mailed /\ id \notin runs[p].texted

\* C5, amended: for every selected reminder the run has finished the sends
\* for, an email was dispatched exactly when the owner email is configured
\* and an SMS exactly when the owner phone is configured and the priority
\* is HIGH or URGENT; no run ever dispatches an SMS for a LOW or MEDIUM
\* reminder
C5_EscalationWhenConfigured ==
    \A p \in Runs :
        /\ \A id \in Reached(p) :
               /\ id \in runs[p].mailed <=> runs[p].userEmail
               /\ id \in runs[p].texted <=>
                      (runs[p].userPhone
                          /\ reminders[id].priority \in {"HIGH", "URGENT"})
        /\ \A id \in runs[p].texted :
               reminders[id].priority \notin {"LOW", "MEDIUM"}

\* a run with owner email and phone configured has returned after an email
\* and an SMS for an URGENT reminder and an email alone for a LOW one
C5_Witness ==
    \E p \in Runs :
        /\ runs[p].pc = "returned" /\ runs[p].ret = 2
        /\ runs[p].userEmail /\ runs[p].userPhone
        /\ \E a, b \in Reached(p) :
               /\ reminders[a].priority = "URGENT"
               /\ a \in runs[p].mailed /\ a \in runs[p].texted
               /\ reminders[b].priority = "LOW"
               /\ b \in runs[p].mailed /\ b \notin runs[p].texted

----------------------------------------------------------------------------
(* distributeResume (src/server/ai/agents/job-agent.ts)                    *)

\* z.string().email(): a local part, an at sign, a domain, a dot, a suffix
IsEmail(chars) ==
    /\ Len(chars) = 5
    /\ chars[2] = "@" /\ chars[4] = "."
    /\ \A k \in {1, 3, 5} : chars[k] \notin {"@", ".", SPACE}

ContactEmails == {<<"hr", "@", "acme", ".", "test">>, <<"hr", SPACE, "acme">>}

\* the parameter objects of distributeResume in the model; a job alert is
\* identified by its position in the table and 0 stands for no jobAlertId
ResumeInputs ==
    [userId : {"u1", "u0", MISSING},
     jobAlertId : 0..(Len(jobAlerts) + 1),
     companyName : {<<"Acme">>},
     contactEmail : ContactEmails]

\* resumeDistributionSchema, for the fields the model varies
resumeDistributionSchema(input) ==
    input.userId # MISSING /\ IsEmail(input.contactEmail)

\* the application mail, then the owner's mail when USER_EMAIL is set
ResumeMails(env, contactTransport, ownerTransport) ==
    LET c == sendMail(env, contactTransport)
        o == IF ~c.threw /\ env.USER_EMAIL
             THEN <<sendMail(env, ownerTransport)>> ELSE <<>>
    IN [threw |-> c.threw \/ (o # <<>> /\ o[1].threw), mails |-> <<c>> \o o,
        sms |-> <<>>]

DistributeResumeNotify ==
    {ResumeMails(e, ct, ot) : e \in Envs, ct \in Transport, ot \in Transport}

\* the data of prisma.resumeDistribution.create
DistributionData(input) ==
    [status |-> "SENT", companyName |-> input.companyName,
     contactEmail |-> input.contactEmail, contactPerson |-> JsonNull]

\* what distributeResume returns
Returned(success) == [success |-> success]

\* mutant: a task that updates the job alert before it records the
\* distribution
distributeResumeUpdatesFirst(input, fault, text, n) ==
    LET row == DistributionData(input)
        failed(error, reads, llmCalls, writes, created) ==
            Outcome("ok", error, reads, llmCalls, Undefined, writes, created,
                    NoNotify, Returned(FALSE))
    IN IF fault.at = "fetch" \/ input.userId = MISSING
       THEN failed("FetchError", 1, 0, 0, <<>>)
       ELSE IF \A k \in DOMAIN user : user[k].id # input.userId
       THEN failed("NotFoundError", 1, 0, 0, <<>>)
       ELSE IF fault.at = "infer"
       THEN failed("InferenceError", 3, 1, 0, <<>>)
       ELSE IF fault.at = "persist"
       THEN failed("PersistenceError", 3, 1, 1, <<>>)
       ELSE IF input.jobAlertId # 0
               /\ (fault.at = "update" \/ input.jobAlertId \notin DOMAIN jobAlerts)
       THEN failed("PersistenceError", 3, 1, 1, <<>>)
       ELSE IF n.threw
       THEN Outcome("ok", "NotificationError", 3, 1, Undefined,
                    IF input.jobAlertId # 0 THEN 2 ELSE 1, <<row>>, n,
                    Returned(FALSE))
       ELSE Outcome("ok", "none", 3, 1, Undefined,
                    IF input.jobAlertId # 0 THEN 2 ELSE 1, <<row>>, n,
                    Returned(TRUE))

\* the task returns whatever happens: a failing step (the store rejects a
\* findUnique without an id) makes it return success false
distributeResume(input, fault, text, n) ==
    LET row == DistributionData(input)
        failed(error, reads, llmCalls, writes, created) ==
            Outcome("ok", error, reads, llmCalls, Undefined, writes, created,
                    NoNotify, Returned(FALSE))
    IN IF fault.at = "fetch" \/ input.userId = MISSING
       THEN failed("FetchError", 1, 0, 0, <<>>)
       ELSE IF \A k \in DOMAIN user : user[k].id # input.userId
       THEN failed("NotFoundError", 1, 0, 0, <<>>)
       ELSE IF fault.at = "infer"
       THEN failed("InferenceError", 3, 1, 0, <<>>)
       ELSE IF fault.at = "persist"
       THEN failed("PersistenceError", 3, 1, 1, <<>>)
       ELSE IF input.jobAlertId # 0
               /\ (fault.at = "update" \/ input.jobAlertId \notin DOMAIN jobAlerts)
       THEN failed("PersistenceError", 3, 1, 2, <<row>>)
       ELSE IF n.threw
       THEN Outcome("ok", "NotificationError", 3, 1, Undefined,
                    IF input.jobAlertId # 0 THEN 2 ELSE 1, <<row>>, n,
                    Returned(FALSE))
       ELSE Outcome("ok", "none", 3, 1, Undefined,
                    IF input.jobAlertId # 0 THEN 2 ELSE 1, <<row>>, n,
                    Returned(TRUE))

\* the job alert of the input was marked APPLIED
MarkedApplied(input, out) ==
    input.jobAlertId # 0 /\ out.error \in {"none", "NotificationError"}

DistributeResumeDone(input, fault, text, out) ==
    /\ StoredRows + Len(out.created) <= MaxRows
    /\ resumeDistributions' = resumeDistributions \o out.created
    /\ jobAlerts' = IF MarkedApplied(input, out)
                    THEN [jobAlerts EXCEPT ![input.jobAlertId].status = "APPLIED"]
                    ELSE jobAlerts
    /\ before' = Snapshot
    /\ last' = [text |-> text, fault |-> fault, out |-> out,
                op |-> "distributeResume", input |-> input]
    /\ UNCHANGED <<profileVars, chatInteractions, chatMessages, reminders,
                   senderVars, parseVars, dueVars>>

At(place) == [k |-> 0, at |-> place]

\* the scenarios of distributeResume, each fault where the task can meet it
DistributeResumeScenarios(input) ==
    {Scenario(At("fetch"), NoText, NoNotify)}
        \cup IF distributeResume(input, NoFault, NoText, NoNotify).llmCalls = 0
             THEN {Scenario(NoFault, NoText, NoNotify)}
             ELSE {Scenario(At("infer"), NoText, NoNotify)}
                 \cup {Scenario(At(a), t, NoNotify) :
                         a \in {"persist"} \cup (IF input.jobAlertId # 0
                                                 THEN {"update"} ELSE {}),
                         t \in CoverLetters}
                 \cup {Scenario(NoFault, t, n) :
                         t \in CoverLetters, n \in DistributeResumeNotify}

DistributeResume ==
    \E input \in ResumeInputs :
        \E sc \in DistributeResumeScenarios(input) :
            DistributeResumeDone(input, sc.fault, sc.text,
                                 distributeResume(input, sc.fault, sc.text, sc.n))

----------------------------------------------------------------------------
(* processChatMessage (the chat agent)                                     *)

\* the most chats and the most messages the tables hold in the model
MaxChats == 2
MaxMessages == 4

\* the parameter objects of processChatMessage in the model; a chat is
\* identified by its position in the table and 0 stands for no chatId
ChatInputs ==
    [content : {<<"hi">>, <<>>},
     chatId : 0..(Len(chatInteractions) + 1),
     visitorEmail : {Undefined, JsonString(<<"nobody">>)}]

\* chatMessageSchema
chatMessageSchema(input) ==
    /\ Len(input.content) >= 1
    /\ input.visitorEmail = Undefined \/ IsEmail(input.visitorEmail.chars)

ChatMessageData(content, sender, chatId) ==
    [content |-> content, chatId |-> chatId, sender |-> sender]

\* mutant: a task that stores the visitor's message after the model call
processChatMessageAsksFirst(input, fault, text) ==
    LET old == input.chatId # 0
        chat == IF old THEN input.chatId ELSE Len(chatInteractions) + 1
        opened == IF old THEN <<>>
                  ELSE <<[visitorEmail |-> input.visitorEmail,
                          visitorName |-> <<"Anonymous">>]>>
        r == IF old THEN 1 ELSE 0
        w == IF old THEN 0 ELSE 1
        asked == ChatMessageData(input.content, "USER", chat)
        aiResponse == Trim(text)
        answered == ChatMessageData(aiResponse, "AI", chat)
        rows(chats, messages) ==
            [chatInteractions |-> chats, chatMessages |-> messages]
        failed(error, reads, llmCalls, writes, created) ==
            Outcome("error", error, reads, llmCalls, Undefined, writes,
                    created, NoNotify, Undefined)
    IN IF fault.at = "session"
       THEN failed(IF old THEN "FetchError" ELSE "PersistenceError", r, 0, w,
                   rows(<<>>, <<>>))
       ELSE IF old /\ input.chatId \notin DOMAIN chatInteractions
       THEN failed("NotFoundError", 1, 0, 0, rows(<<>>, <<>>))
       ELSE IF fault.at = "owner"
       THEN failed("FetchError", r + 1, 0, w, rows(opened, <<>>))
       ELSE IF fault.at = "visitor"
       THEN failed("PersistenceError", r + 1, 0, w + 1, rows(opened, <<>>))
       ELSE IF fault.at = "infer"
       THEN failed("InferenceError", r + 1, 1, w, rows(opened, <<>>))
       ELSE IF fault.at = "assistant"
       THEN failed("PersistenceError", r + 1, 1, w + 2, rows(opened, <<asked>>))
       ELSE Outcome("ok", "none", r + 1, 1, Undefined, w + 2,
                    rows(opened, <<asked, answered>>), NoNotify,
                    [content |-> aiResponse, chatId |-> chat,
                     messageId |-> Len(chatMessages) + 2])

processChatMessage(input, fault, text) ==
    LET old == input.chatId # 0
        chat == IF old THEN input.chatId ELSE Len(chatInteractions) + 1
        opened == IF old THEN <<>>
                  ELSE <<[visitorEmail |-> input.visitorEmail,
                          visitorName |-> <<"Anonymous">>]>>
        r == IF old THEN 1 ELSE 0
        w == IF old THEN 0 ELSE 1
        asked == ChatMessageData(input.content, "USER", chat)
        aiResponse == Trim(text)
        answered == ChatMessageData(aiResponse, "AI", chat)
        rows(chats, messages) ==
            [chatInteractions |-> chats, chatMessages |-> messages]
        failed(error, reads, llmCalls, writes, created) ==
            Outcome("error", error, reads, llmCalls, Undefined, writes,
                    created, NoNotify, Undefined)
    IN IF fault.at = "session"
       THEN failed(IF old THEN "FetchError" ELSE "PersistenceError", r, 0, w,
                   rows(<<>>, <<>>))
       ELSE IF old /\ input.chatId \notin DOMAIN chatInteractions
       THEN failed("NotFoundError", 1, 0, 0, rows(<<>>, <<>>))
       ELSE IF fault.at = "owner"
       THEN failed("FetchError", r + 1, 0, w, rows(opened, <<>>))
       ELSE IF fault.at = "visitor"
       THEN failed("PersistenceError", r + 1, 0, w + 1, rows(opened, <<>>))
       ELSE IF fault.at = "infer"
       THEN failed("InferenceError", r + 1, 1, w + 1, rows(opened, <<asked>>))
       ELSE IF fault.at = "assistant"
       THEN failed("PersistenceError", r + 1, 1, w + 2, rows(opened, <<asked>>))
       ELSE Outcome("ok", "none", r + 1, 1, Undefined, w + 2,
                    rows(opened, <<asked, answered>>), NoNotify,
                    [content |-> aiResponse, chatId |-> chat,
                     messageId |-> Len(chatMessages) + 2])

\* include: { conversation: true }: the stored messages of one chat
Conversation(messages, chatId) ==
    LET OfChat(msg) == msg.chatId = chatId
    IN SelectSeq(messages, OfChat)

\* one line of the history: who spoke, and the content
HistoryLine(msg) ==
    [speaker |-> IF msg.sender = "USER" THEN "Visitor" ELSE "Assistant",
     said |-> msg.content]

\* mutant: a history formatted after the visitor's message was stored
chatHistoryAfterVisitor(input) ==
    IF input.chatId \notin DOMAIN chatInteractions THEN <<>>
    ELSE LET asked == ChatMessageData(input.content, "USER", input.chatId)
             conversation ==
                 Conversation(chatMessages \o <<asked>>, input.chatId)
         IN [k \in 1..Len(conversation) |-> HistoryLine(conversation[k])]

\* the chatHistory variable of the prompt: the lines of chat.conversation
\* as the findUnique returned it, none for a chat just created
chatHistory(input) ==
    IF input.chatId \notin DOMAIN chatInteractions THEN <<>>
    ELSE LET conversation == Conversation(chatMessages, input.chatId)
         IN [k \in 1..Len(conversation) |-> HistoryLine(conversation[k])]

ProcessChatMessageDone(input, fault, text, out) ==
    /\ Len(chatInteractions) + Len(out.created.chatInteractions) <= MaxChats
    /\ Len(chatMessages) + Len(out.created.chatMessages) <= MaxMessages
    /\ chatInteractions' = chatInteractions \o out.created.chatInteractions
    /\ chatMessages' = chatMessages \o out.created.chatMessages
    /\ before' = Snapshot
    /\ last' = [text |-> text, fault |-> fault, out |-> out,
                op |-> "processChatMessage", input |-> input,
                chatHistory |-> chatHistory(input)]
    /\ UNCHANGED <<profileVars, jobAlerts, resumeDistributions, reminders,
                   senderVars, parseVars, dueVars>>

\* the scenarios of processChatMessage, each fault where the task can meet it
ProcessChatMessageScenarios(input) ==
    {Scenario(At("session"), NoText, NoNotify)}
        \cup IF input.chatId # 0 /\ input.chatId \notin DOMAIN chatInteractions
             THEN {Scenario(NoFault, NoText, NoNotify)}
             ELSE {Scenario(At(a), NoText, NoNotify) :
                      a \in {"owner", "visitor", "infer"}}
                  \cup {Scenario(f, t, NoNotify) :
                          f \in {At("assistant"), NoFault}, t \in ChatReplies}

ProcessChatMessage ==
    \E input \in ChatInputs :
        \E sc \in ProcessChatMessageScenarios(input) :
            ProcessChatMessageDone(input, sc.fault, sc.text,
                                   processChatMessage(input, sc.fault, sc.text))

----------------------------------------------------------------------------
(* analyzePortfolioContent and suggestSkillUpdates (the portfolio agent)   *)

\* portfolioAnalysisSchema and skillUpdateSchema, and jobSearchSchema, for
\* the field the model varies
portfolioAnalysisSchema(input) == input.userId # MISSING
skillUpdateSchema(input) == input.userId # MISSING
jobSearchSchema(input) == input.userId # MISSING

\* mutant: a task that answers a failing model call with an empty result
AdviseSwallowsFailure(input, fault, text) ==
    LET answer == Parsed[text]
        failed(error, reads, llmCalls, parsed) ==
            Outcome("error", error, reads, llmCalls, parsed, 0, <<>>,
                    NoNotify, Undefined)
    IN IF fault.at = "fetch" THEN failed("FetchError", 1, 0, Undefined)
       ELSE IF fault.at = "infer"
       THEN Outcome("ok", "none", 4, 1, Undefined, 0, <<>>, NoNotify,
                    JsonArray(<<>>))
       ELSE IF answer.kind = "SyntaxError"
       THEN failed("MalformedResponseError", 4, 1, answer)
       ELSE Outcome("ok", "none", 4, 1, answer, 0, <<>>, NoNotify, answer)

\* both tasks read four tables, call the model and return what the parse
\* step makes of the answer
Advise(input, fault, text) ==
    LET answer == Parsed[text]
        failed(error, reads, llmCalls, parsed) ==
            Outcome("error", error, reads, llmCalls, parsed, 0, <<>>,
                    NoNotify, Undefined)
    IN IF fault.at = "fetch" THEN failed("FetchError", 1, 0, Undefined)
       ELSE IF fault.at = "infer" THEN failed("InferenceError", 4, 1, Undefined)
       ELSE IF answer.kind = "SyntaxError"
       THEN failed("MalformedResponseError", 4, 1, answer)
       ELSE Outcome("ok", "none", 4, 1, answer, 0, <<>>, NoNotify, answer)

analyzePortfolioContent(input, fault, text) == Advise(input, fault, text)
suggestSkillUpdates(input, fault, text) == Advise(input, fault, text)

AdviseDone(op, input, fault, text, out) ==
    /\ before' = Snapshot
    /\ last' = [text |-> text, fault |-> fault, out |-> out, op |-> op,
                input |-> input]
    /\ UNCHANGED <<profileVars, deskVars, jobAlerts, reminders, senderVars,
                   parseVars, dueVars>>

AdviseInputs == [userId : {"u1", MISSING}]

AdviseScenarios(texts) ==
    {Scenario(At(a), NoText, NoNotify) : a \in {"fetch", "infer"}}
        \cup {Scenario(NoFault, t, NoNotify) : t \in texts}

AnalyzePortfolioContent ==
    \E input \in AdviseInputs : \E sc \in AdviseScenarios(AnalysisResponses) :
        AdviseDone("analyzePortfolioContent", input, sc.fault, sc.text,
                   analyzePortfolioContent(input, sc.fault, sc.text))

SuggestSkillUpdates ==
    \E input \in AdviseInputs : \E sc \in AdviseScenarios(SuggestionResponses) :
        AdviseDone("suggestSkillUpdates", input, sc.fault, sc.text,
                   suggestSkillUpdates(input, sc.fault, sc.text))

----------------------------------------------------------------------------
(* All the agent tasks                                                     *)

\* the tasks that read the owner's profile and ask the model for JSON
Next ==
    \/ SearchJobs
    \/ GenerateReminders
    \/ AnalyzePortfolioContent
    \/ SuggestSkillUpdates

Spec == Init /\ [][Next]_vars

\* distributeResume, over a store that holds no job alert or one, found by
\* searchJobs and since applied for or not
SeedAlert(status) ==
    [userId |-> "u1", jobTitle |-> <<"engineer">>, location |-> <<"Remote">>,
     status |-> status]

InitResume ==
    /\ ProfileInit /\ reminders = <<>>
    /\ SendersIdle /\ ParseIdle /\ DueIdle
    /\ jobAlerts \in {<<>>, <<SeedAlert("IDENTIFIED")>>,
                      <<SeedAlert("INTERVIEW_SCHEDULED")>>}
    /\ resumeDistributions = <<>>
    /\ chatInteractions = <<>>
    /\ chatMessages = <<>>
    /\ before = Snapshot
    /\ last = [op |-> "none"]

NextResume == DistributeResume

SpecResume == InitResume /\ [][NextResume]_vars

\* processChatMessage
NextChat == ProcessChatMessage

SpecChat == Init /\ [][NextChat]_vars

\* the tasks that take a parameter object with an input schema
SchemaTasks ==
    {"searchJobs", "distributeResume", "processChatMessage",
     "analyzePortfolioContent", "suggestSkillUpdates"}

\* the parameter object of the last invocation satisfies the task's schema
InputValid ==
    CASE last.op = "searchJobs" -> jobSearchSchema([userId |-> last.userId])
      [] last.op = "distributeResume" -> resumeDistributionSchema(last.input)
      [] last.op = "processChatMessage" -> chatMessageSchema(last.input)
      [] last.op = "analyzePortfolioContent" -> portfolioAnalysisSchema(last.input)
      [] last.op = "suggestSkillUpdates" -> skillUpdateSchema(last.input)

\* C9: a task invoked with a parameter object that violates its schema
\* fails with a validation failure, having read and written nothing in the
\* store, called the model not once and sent no notification (stated for
\* the invocations that meet no fault of the store or the model, where
\* nothing but the input can make the task fail)
C9_ValidationFirst ==
    (last.op \in SchemaTasks /\ ~InputValid /\ last.fault.at = "none") =>
        /\ last.out.error = "ValidationError"
        /\ last.out.reads = 0 /\ last.out.writes = 0
        /\ last.out.llmCalls = 0
        /\ NothingSent
        /\ StoreUntouched

----------------------------------------------------------------------------
(* Failures at the boundary of a task                                      *)

\* the tasks whose catch block raises a new error
RaisingTasks ==
    {"searchJobs", "generateReminders", "analyzePortfolioContent",
     "suggestSkillUpdates", "processChatMessage"}

\* a step inside the last invocation failed: a store call or the model call
\* met a fault, or the model's answer did not parse
StepFailed ==
    \/ last.fault.at # "none"
    \/ /\ last.op \in RaisingTasks \ {"processChatMessage"}
       /\ ModelAnswered
       /\ Answer.kind = "SyntaxError"

\* the last invocation raised one error and returned nothing
RaisedOnce == last.out.result = "error" /\ last.out.ret = Undefined

----------------------------------------------------------------------------
(* The senders and their credentials                                      *)

\* one of the three values sendSMS checks is not set
SmsCredentialAbsent ==
    \/ ~call.env.TWILIO_ACCOUNT_SID
    \/ ~call.env.TWILIO_AUTH_TOKEN
    \/ ~call.env.TWILIO_PHONE_NUMBER

\* one of the two values of the mail transport's auth is not set
MailCredentialAbsent ==
    ~call.env.EMAIL_SERVER_USER \/ ~call.env.EMAIL_SERVER_PASSWORD

\* C12: sendSMS with an SMS credential absent contacts no provider and
\* returns false in every mode, development included; sendMail with a mail
\* credential absent still goes to the transport
C12_SmsNeedsCredentials ==
    /\ (call.fn = "sendSMS" /\ SmsCredentialAbsent) =>
           /\ ~call.outcome.contacted
           /\ ~call.outcome.threw
           /\ ~call.outcome.ret
    /\ (call.fn = "sendMail" /\ MailCredentialAbsent) =>
           call.outcome.contacted

\* sendSMS was called in development mode with only the sender number
\* missing, and returned false without a request
C12_Witness ==
    /\ call.fn = "sendSMS"
    /\ call.env.NODE_ENV = "development"
    /\ call.env.TWILIO_ACCOUNT_SID
    /\ call.env.TWILIO_AUTH_TOKEN
    /\ ~call.env.TWILIO_PHONE_NUMBER
    /\ ~call.outcome.contacted
    /\ ~call.outcome.ret

\* C13: in development mode a sender reports success and makes no request
\* to the external provider during the call
C13_DevModeSimulates ==
    (call.fn \in {"sendMail", "sendSMS"} /\ call.env.NODE_ENV = "development")
        => (call.outcome.ret /\ ~call.outcome.contacted)

----------------------------------------------------------------------------
(* What a run of the due-check selects, notifies and marks                 *)

\* the reminders that, in the current state, are incomplete, not yet
\* notified and due no later than 48 hours from now
Qualifying ==
    {id \in ReminderIds :
        /\ ~reminders[id].completed
        /\ ~reminders[id].notificationSent
        /\ reminders[id].dueDate - now <= LookaheadHours}

\* run p takes its scan in this step
Scans(p) == runs[p].pc = "idle" /\ runs'[p].pc # "idle"

\* this step changes the stored reminder id
Rewrites(id) == reminders'[id] # reminders[id]

\* run p is at the update of reminder id and takes a step
UpdatesFrom(p, id) ==
    /\ runs[p].pc = "update"
    /\ runs[p].due[runs[p].i] = id
    /\ runs'[p] # runs[p]

\* every step keeps a run's notifications and marks inside what qualified
\* when the run scanned: the scan selects qualifying reminders only, the
\* selection never changes afterwards, emails and SMS go to selected
\* reminders only, and a stored reminder changes only by the update of a
\* run that selected it, which sets notificationSent and nothing else
OnlyQualifying ==
    /\ Len(reminders') = Len(reminders)
    /\ \A p \in Runs :
           /\ Scans(p) => Selected(p)' \subseteq Qualifying
           /\ (Scans(p) /\ runs'[p].pc = "email") => Selected(p)' = Qualifying
           /\ ~Scans(p) => runs'[p].due = runs[p].due
           /\ (runs'[p].mailed \cup runs'[p].texted) \subseteq Selected(p)'
    /\ \A id \in ReminderIds :
           Rewrites(id) =>
               /\ \E p \in Runs : UpdatesFrom(p, id) /\ id \in Selected(p)
               /\ reminders'[id] =
                      [reminders[id] EXCEPT !.notificationSent = TRUE]

\* C14 as stated: a run notifies and marks only reminders that qualified at
\* its scan, leaves every other reminder unchanged, and every reminder it
\* selected has got its own email by the time it returns
C14_OnlyQualifyingEachMailed ==
    [][/\ OnlyQualifying
       /\ \A p \in Runs :
              runs'[p].pc = "returned" => runs'[p].mailed = Selected(p)']_vars

\* C14, amended: a run notifies and marks only reminders that qualified at
\* its scan and leaves every other reminder unchanged; when the owner email
\* is configured, every selected reminder the run has finished the sends
\* for has got its own email, and without an owner email none is sent
C14_OnlyQualifyingMailedWhenConfigured ==
    [][/\ OnlyQualifying
       /\ \A p \in Runs :
              IF runs'[p].userEmail
              THEN Reached(p)' \subseteq runs'[p].mailed
              ELSE runs'[p].mailed = {}]_vars

\* a run with the owner email configured has returned 1 from a table of two
\* reminders: it mailed and marked the one that qualified and left the
\* completed one as it was
C14_Witness ==
    \E p \in Runs : \E a, b \in ReminderIds :
        /\ runs[p].pc = "returned" /\ runs[p].ret = 1
        /\ runs[p].userEmail
        /\ runs[p].mailed = {a} /\ reminders[a].notificationSent
        /\ reminders[b].completed /\ ~reminders[b].notificationSent
        /\ b \notin runs[p].mailed \cup runs[p].texted

\* C15: a reminder is emailed by both runs only if both selected it, and
\* then the runs were interleaved, the second scanning before the first had
\* marked it, or an update failed and left it unmarked; once it is marked a
\* later scan does not select it
C15_TwiceOnlyWhenUnmarkedAtBothScans ==
    \A id \in ReminderIds :
        MailsFor(id) = 2 =>
            /\ \A p \in Runs : id \in Selected(p)
            /\ overlap \/ \E p \in Runs : runs[p].failedAt = "update"

\* two interleaved runs have both returned without a failure, and both
\* have emailed and counted the same reminder
C15_Witness ==
    /\ overlap
    /\ \A p \in Runs :
           /\ runs[p].pc = "returned"
           /\ runs[p].failedAt = "none"
           /\ runs[p].ret >= 1
    /\ \E id \in ReminderIds :
           /\ MailsFor(id) = 2
           /\ reminders[id].notificationSent

\* C16: a reminder that a run has marked notified has had an email or an
\* SMS dispatched for it by that run, also when the owner email is not
\* configured
C16_MarkedOnlyIfDispatched ==
    \A p \in Runs :
        \A k \in 1..runs[p].notificationsSent :
            runs[p].due[k] \in runs[p].mailed \cup runs[p].texted

\* the selected reminders whose update by run p succeeded
MarkedBy(p) == {runs[p].due[k] : k \in 1..runs[p].notificationsSent}

\* C20 as stated: the number a run returns is the number of reminders
\* whose notificationSent flag it set
C20_ReturnsMarkedCount ==
    \A p \in Runs :
        runs[p].pc = "returned" => runs[p].ret = Cardinality(MarkedBy(p))

\* C20, amended: a run that gets through its loop returns the number of
\* reminders it marked, which are all it selected; a run ends early only at
\* a failing findMany or update, never at a send, and then returns 0
\* whatever it had marked before
C20_CountOrZero ==
    \A p \in Runs :
        runs[p].pc = "returned" =>
            /\ runs[p].failedAt \in {"none", "find", "update"}
            /\ runs[p].failedAt = "none" =>
                   /\ runs[p].ret = Cardinality(MarkedBy(p))
                   /\ MarkedBy(p) = Selected(p)
            /\ runs[p].failedAt # "none" => runs[p].ret = 0
            /\ \A id \in MarkedBy(p) : reminders[id].notificationSent

\* a run has emailed and marked its first reminder, its second update has
\* failed, and it has returned 0
C20_Witness ==
    \E p \in Runs :
        /\ runs[p].pc = "returned" /\ runs[p].failedAt = "update"
        /\ runs[p].ret = 0
        /\ Cardinality(MarkedBy(p)) = 1
        /\ \A id \in MarkedBy(p) :
               id \in runs[p].mailed /\ reminders[id].notificationSent

----------------------------------------------------------------------------
(* The chat history                                                        *)

\* the last invocation was a processChatMessage on an existing chat that
\* returned a reply
RepliedInChat ==
    /\ last.op = "processChatMessage"
    /\ last.out.result = "ok"
    /\ last.input.chatId # 0

\* the messages of the last invocation's chat that were stored before it
StoredBefore ==
    LET InChat(msg) == msg.chatId = last.input.chatId
    IN SelectSeq(before.chatMessages, InChat)

\* C17: a processChatMessage on an existing chat that returns a reply has
\* appended two messages to that chat, the visitor's with sender USER and
\* then the reply with sender AI, has left every message stored before it
\* and every chat as it was, and has passed to the model one history line
\* for each message of the chat stored before the call, in their order
C17_HistoryAppendOnly ==
    RepliedInChat =>
        LET old == before.chatMessages
            n == Len(old)
        IN /\ Len(chatMessages) = n + 2
           /\ \A k \in 1..n : chatMessages[k] = old[k]
           /\ chatMessages[n + 1].sender = "USER"
           /\ chatMessages[n + 1].content = last.input.content
           /\ chatMessages[n + 1].chatId = last.input.chatId
           /\ chatMessages[n + 2].sender = "AI"
           /\ chatMessages[n + 2].content = last.out.ret.content
           /\ chatMessages[n + 2].chatId = last.input.chatId
           /\ chatInteractions = before.chatInteractions
           /\ Len(last.chatHistory) = Len(StoredBefore)
           /\ \A k \in 1..Len(StoredBefore) :
                  /\ last.chatHistory[k].said = StoredBefore[k].content
                  /\ last.chatHistory[k].speaker = "Visitor"
                         <=> StoredBefore[k].sender = "USER"

\* a second message in a chat that already held the visitor's first message
\* and the assistant's reply: both were in the history, and the chat now
\* holds four messages
C17_Witness ==
    /\ RepliedInChat
    /\ Len(StoredBefore) = 2
    /\ last.chatHistory[1].speaker = "Visitor"
    /\ last.chatHistory[2].speaker = "Assistant"
    /\ Len(chatMessages) = 4

----------------------------------------------------------------------------
(* The status of a job alert                                               *)

\* C18: an invocation creates job alerts with status IDENTIFIED only, and
\* changes the status of a stored alert only from IDENTIFIED to APPLIED
C18_StatusOnlyForward ==
    /\ \A id \in DOMAIN jobAlerts \ DOMAIN before.jobAlerts :
           jobAlerts[id].status = "IDENTIFIED"
    /\ \A id \in DOMAIN before.jobAlerts :
           jobAlerts[id].status # before.jobAlerts[id].status =>
               /\ before.jobAlerts[id].status = "IDENTIFIED"
               /\ jobAlerts[id].status = "APPLIED"

----------------------------------------------------------------------------
(* No rollback                                                             *)

\* the table the last invocation writes to, now and before it
WrittenTable == IF IsSearch THEN jobAlerts ELSE reminders
WrittenBefore == IF IsSearch THEN before.jobAlerts ELSE before.reminders

\* C19: when the write of the k-th of N derived items fails in searchJobs
\* or generateReminders, the task reports failure and the store holds what
\* it held before plus the k-1 rows of the items before the k-th, between 0
\* and N-1 new rows
C19_NoRollback ==
    WriteFailed
    => /\ last.out.result = "error"
       /\ Len(WrittenTable) = Len(WrittenBefore) + last.fault.k - 1
       /\ last.fault.k - 1 \in 0..(Len(Answer.elems) - 1)
       /\ SubSeq(WrittenTable, 1, Len(WrittenBefore)) = WrittenBefore
       /\ \A i \in 1..(last.fault.k - 1) :
              IF IsSearch
              THEN jobAlerts[Len(before.jobAlerts) + i]
                       = JobAlertData(last.userId, Answer.elems[i])
              ELSE reminders[Len(before.reminders) + i]
                       = ReminderData(Answer.elems[i])
       /\ StoreGrewBy(last.out.created)

\* searchJobs failed at the second of two writes and the alert of the first
\* job is in the store
C19_Witness ==
    /\ WriteFailed /\ IsSearch
    /\ last.fault.k = 2 /\ Len(Answer.elems) = 2
    /\ last.out.result = "error"
    /\ Len(jobAlerts) = Len(before.jobAlerts) + 1

----------------------------------------------------------------------------
(* A failing model call in the chat                                        *)

\* the last invocation was a processChatMessage whose model call failed
ModelCallFailed ==
    /\ last.op = "processChatMessage"
    /\ last.fault.at = "infer"
    /\ last.out.llmCalls = 1

\* C21: when the model call of processChatMessage fails the task raises,
\* and the store holds what it held before plus the visitor's message,
\* sender USER, in the chat of the input or, when the input has no chatId,
\* in a chat session created by this invocation; no assistant reply was
\* stored
C21_VisitorMessageSurvives ==
    ModelCallFailed =>
        LET n == Len(before.chatMessages)
            c == Len(before.chatInteractions)
            chat == IF last.input.chatId # 0 THEN last.input.chatId ELSE c + 1
        IN /\ last.out.result = "error"
           /\ last.out.ret = Undefined
           /\ Len(chatInteractions)
                  = (IF last.input.chatId # 0 THEN c ELSE c + 1)
           /\ SubSeq(chatInteractions, 1, c) = before.chatInteractions
           /\ Len(chatMessages) = n + 1
           /\ SubSeq(chatMessages, 1, n) = before.chatMessages
           /\ chatMessages[n + 1].sender = "USER"
           /\ chatMessages[n + 1].content = last.input.content
           /\ chatMessages[n + 1].chatId = chat

\* the model call has failed twice in a chat opened by the first of the two
\* invocations: the chat holds two visitor messages in a row and no reply
C21_Witness ==
    /\ ModelCallFailed
    /\ last.input.chatId # 0
    /\ Len(StoredBefore) = 1
    /\ StoredBefore[1].sender = "USER"
    /\ chatMessages[Len(chatMessages)].sender = "USER"
    /\ chatMessages[Len(chatMessages)].chatId = last.input.chatId
    /\ \A k \in DOMAIN chatMessages : chatMessages[k].sender # "AI"

----------------------------------------------------------------------------
(* The order of the steps of distributeResume                              *)

\* the last invocation was a distributeResume that got its cover letter and
\* recorded the distribution
Distributed ==
    /\ last.op = "distributeResume"
    /\ ModelAnswered
    /\ last.fault.at \notin {"fetch", "persist"}

\* its update of the job alert failed: the store failed it, or the store
\* holds no alert with the jobAlertId of the input
UpdateFailed ==
    /\ Distributed
    /\ last.input.jobAlertId # 0
    /\ \/ last.fault.at = "update"
       \/ last.input.jobAlertId \notin DOMAIN before.jobAlerts

\* the store holds what it held before plus one distribution with status
\* SENT for the company and the contact of the input
SentRecorded ==
    LET d == Len(before.resumeDistributions) IN
    /\ Len(resumeDistributions) = d + 1
    /\ SubSeq(resumeDistributions, 1, d) = before.resumeDistributions
    /\ resumeDistributions[d + 1].status = "SENT"
    /\ resumeDistributions[d + 1].companyName = last.input.companyName
    /\ resumeDistributions[d + 1].contactEmail = last.input.contactEmail

\* C22: distributeResume records the distribution with status SENT before
\* it updates the job alert and before it sends the application email: when
\* the update fails it returns success false, the SENT record is stored, no
\* alert has changed and no email was sent; when no step raises it returns
\* success true after sending the application email, whatever sendMail
\* reported
C22_RecordedBeforeUpdateAndMail ==
    /\ UpdateFailed =>
           /\ last.out.result = "ok"
           /\ last.out.ret = Returned(FALSE)
           /\ SentRecorded
           /\ jobAlerts = before.jobAlerts
           /\ NothingSent
    /\ (Distributed /\ ~UpdateFailed) =>
           /\ last.out.ret = Returned(TRUE)
           /\ SentRecorded
           /\ Len(last.out.n.mails) >= 1
           /\ last.input.jobAlertId # 0 =>
                  jobAlerts[last.input.jobAlertId].status = "APPLIED"

\* a distributeResume with a jobAlertId the store does not know has met no
\* injected fault, has returned success false and has left the SENT record
C22_Witness ==
    /\ UpdateFailed
    /\ last.fault.at = "none"
    /\ last.input.jobAlertId \notin DOMAIN jobAlerts
    /\ last.out.ret = Returned(FALSE)
    /\ SentRecorded
    /\ NothingSent

====
